---- MODULE Spec2Model ----
(***************************************************************************)
(* The relationship and content controllers of chai-backend as a state     *)
(* machine.  Every request handler is an async function: the code between  *)
(* two awaited store calls runs without interruption, and each awaited     *)
(* store call (findById, findOne, create, findByIdAndDelete,               *)
(* findByIdAndUpdate) takes effect atomically at the store.  One action of *)
(* the model is therefore one store call of one request together with the  *)
(* synchronous code around it; requests of different clients interleave at *)
(* the awaits.                                                             *)
(***************************************************************************)
EXTENDS Integers, Sequences, FiniteSets, TLC

\* ------------------------------------------------------------------ bounds
\* number of requests that can be in flight at the same time
NumProcs == 2
\* number of toggle requests received in one run
MaxToggles == 3
\* number of content requests received in one run
MaxMutations == 2
\* number of list requests received in one run
MaxReads == 2
\* number of requests received in one run with the dashboard
MaxStats == 3
\* number of requests received in one run with the feed
MaxFeed == 3
\* number of requests received in one run with the view counter
MaxViews == 3
\* number of requests received in one run with creation and playlists
MaxLibrary == 2

Procs == 1..NumProcs

\* ------------------------------------------------------------- identifiers
\* "bad" is a string that is no ObjectId; every other id is well formed.
\* u9, v9, c9, t9, p9 are well-formed ids no document has.
Users == {"u1", "u2"}
UserIds == Users \cup {"u9", "bad"}
VideoIds == {"v1", "v9", "bad"}
Comments == {"c1"}
CommentIds == Comments \cup {"c9", "bad"}
TweetIds == {"t1", "t9", "bad"}
PlaylistIds == {"p1", "p9", "bad"}

isValidObjectId(id) == id # "bad"

\* the value of a request field that is not given
None == "none"

VARIABLES
    subscriptions,  \* Subscription collection: set of [id, subscriber, channel]
    likes,          \* Like collection: set of [id, field, target, likedBy]
    videos,         \* Video collection: set of [id, owner, isPublished, title]
    tweets,         \* Tweet collection: set of [id, owner, content]
    playlists,      \* Playlist collection: set of [id, owner, name, videos]
    nextId,         \* the _id the next created edge document gets
    pc,             \* per request slot: the await the handler is suspended at
    req,            \* per request slot: the request (handler, caller, params)
    found,          \* per request slot: the documents the handler has read
    resp,           \* the response sent last, with the request it answers
    started,        \* number of requests received so far
    initial,        \* history: the edges present before the first request
    toggles         \* history: completed toggles per (kind, source, target)

vars == <<subscriptions, likes, videos, tweets, playlists, nextId,
          pc, req, found, resp, started, initial, toggles>>
edges == <<subscriptions, likes, nextId>>
content == <<videos, tweets, playlists>>
history == <<initial, toggles>>

\* ------------------------------------------------------------ store layer
\* The edge of a document: kind, source and target.
SubKey(d) == <<"channel", d.subscriber, d.channel>>
LikeKey(d) == <<d.field, d.likedBy, d.target>>

SubDoc(id, subscriber, channel) == [id |-> id, subscriber |-> subscriber, channel |-> channel]
LikeDoc(id, field, target, likedBy) == [id |-> id, field |-> field, target |-> target, likedBy |-> likedBy]

\* The uniqueness constraint of the Edge collections on (source, target, kind):
\* a create of a second document for the same triple is refused by the store.
\* (a collection without the constraint refuses nothing)
DuplicateKeyNever(keys, key) == FALSE
DuplicateKey(keys, key) == key \in keys

\* findById: the documents of the collection with that _id (one or none)
FindById(coll, id) == {d \in coll : d.id = id}
\* findByIdAndDelete: removes the document with that _id, nothing when absent
\* (a delete that removes nothing)
FindByIdAndDeleteNothing(coll, id) == coll
FindByIdAndDelete(coll, id) == {d \in coll : d.id # id}

\* ------------------------------------------------------------- responses
\* a: the id in the path (channelId, videoId, ..., playlistId); b: the second
\* path id or the body field
Req(op, caller, a, b) == [op |-> op, caller |-> caller, a |-> a, b |-> b]
NoReq == Req(None, None, None, None)

\* the response to request r.  status: the HTTP status; flag: isSubscribed /
\* isLiked of a toggle's payload (FALSE in every response that carries none)
Resp(r, status, flag) ==
    [op |-> r.op, caller |-> r.caller, a |-> r.a, b |-> r.b,
     status |-> status, flag |-> flag]
NoResp == Resp(NoReq, 0, FALSE)
\* a thrown ApiError(status, ...)
ApiError(r, status) == Resp(r, status, FALSE)

Idle(p) == pc[p] = "idle"

\* a request arrives at a free slot
Arrive(p) ==
    /\ Idle(p)
    /\ started' = started + 1

\* the handler of request r throws before its second await
Reject(p, r, status) ==
    /\ resp' = ApiError(r, status)
    /\ UNCHANGED <<pc, req, found>>

\* the handler of request r got docs from its first read and awaits the next call
Await(p, r, at, docs) ==
    /\ req' = [req EXCEPT ![p] = r]
    /\ pc' = [pc EXCEPT ![p] = at]
    /\ found' = [found EXCEPT ![p] = docs]
    /\ UNCHANGED resp

\* the handler of slot p ends with a response
Respond(p, status, flag) ==
    /\ resp' = Resp(req[p], status, flag)
    /\ pc' = [pc EXCEPT ![p] = "idle"]
    /\ req' = [req EXCEPT ![p] = NoReq]
    /\ found' = [found EXCEPT ![p] = {}]
    /\ UNCHANGED started

\* ---------------------------------------------------------- toggle engine
\* the edge a toggle request addresses
LikeOps == {"toggleVideoLike", "toggleCommentLike", "toggleTweetLike"}
ToggleOps == LikeOps \cup {"toggleSubscription"}

\* the Like field each handler queries and writes
\* (every like handler on the field video)
LikeFieldVideo(op) == "video"
LikeField(op) ==
    CASE op = "toggleVideoLike" -> "video"
      [] op = "toggleCommentLike" -> "Comment"
      [] op = "toggleTweetLike" -> "tweet"

ReqKey(r) ==
    IF r.op = "toggleSubscription" THEN <<"channel", r.caller, r.a>>
    ELSE <<LikeField(r.op), r.caller, r.a>>

\* a completed toggle is added to the history
Completed(p) == toggles' = [toggles EXCEPT ![ReqKey(req[p])] = @ + 1]

\* toggleSubscription up to its second await: validation, User.findById, the
\* self-subscription check; then the handler awaits Subscription.findOne.
\* (the handler without the self-subscription check)
SelfSubscribeAllowed(channelId, caller) == FALSE
SelfSubscribe(channelId, caller) == channelId = caller

toggleSubscription(p, caller, channelId) ==
    /\ Arrive(p)
    /\ UNCHANGED <<edges, content, history>>
    /\ LET r == Req("toggleSubscription", caller, channelId, None)
       IN  IF ~isValidObjectId(channelId) THEN Reject(p, r, 400)
           ELSE IF channelId \notin Users THEN Reject(p, r, 404)
           ELSE IF SelfSubscribe(channelId, caller) THEN Reject(p, r, 400)
           ELSE Await(p, r, "findOne", {})

\* Subscription.findOne({subscriber, channel}): one matching document, or null
toggleSubscription_findOne(p) ==
    /\ pc[p] = "findOne" /\ req[p].op = "toggleSubscription"
    /\ LET match == {d \in subscriptions :
                        d.subscriber = req[p].caller /\ d.channel = req[p].a}
       IN  \E docs \in IF match = {} THEN {{}} ELSE {{d} : d \in match} :
               found' = [found EXCEPT ![p] = docs]
    /\ pc' = [pc EXCEPT ![p] = "write"]
    /\ UNCHANGED <<edges, content, history, req, resp, started>>

\* the branch on existingSubscription: findByIdAndDelete, or create
toggleSubscription_write(p) ==
    /\ pc[p] = "write" /\ req[p].op = "toggleSubscription"
    /\ UNCHANGED <<likes, content, initial>>
    /\ IF found[p] # {}
         THEN /\ subscriptions' = UNION {FindByIdAndDelete(subscriptions, d.id) : d \in found[p]}
              /\ UNCHANGED nextId
              /\ Completed(p)
              /\ Respond(p, 200, FALSE)
       ELSE IF DuplicateKey({SubKey(d) : d \in subscriptions}, ReqKey(req[p]))
         THEN \* the rejected create leaves the handler as an error that is
              \* no ApiError: status 500
              /\ UNCHANGED <<subscriptions, nextId, toggles>>
              /\ Respond(p, 500, FALSE)
       ELSE /\ subscriptions' = subscriptions
                    \cup {SubDoc(nextId, req[p].caller, req[p].a)}
            /\ nextId' = nextId + 1
            /\ Completed(p)
            /\ Respond(p, 200, TRUE)

\* toggleVideoLike, toggleCommentLike and toggleTweetLike are the same code
\* over the Like field "video", "Comment" and "tweet": validation and the
\* target's findById; then the handler awaits Like.findOne.
LikeTarget(p, op, caller, id, exists) ==
    /\ Arrive(p)
    /\ UNCHANGED <<edges, content, history>>
    /\ LET r == Req(op, caller, id, None)
       IN  IF ~isValidObjectId(id) THEN Reject(p, r, 400)
           ELSE IF ~exists THEN Reject(p, r, 404)
           ELSE Await(p, r, "findOne", {})

toggleVideoLike(p, caller, videoId) ==
    LikeTarget(p, "toggleVideoLike", caller, videoId, FindById(videos, videoId) # {})

toggleCommentLike(p, caller, commentId) ==
    LikeTarget(p, "toggleCommentLike", caller, commentId, commentId \in Comments)

\* (the handler without the "Tweet not found" check)
toggleTweetLikeUnchecked(p, caller, tweetId) ==
    LikeTarget(p, "toggleTweetLike", caller, tweetId, TRUE)
toggleTweetLike(p, caller, tweetId) ==
    LikeTarget(p, "toggleTweetLike", caller, tweetId, FindById(tweets, tweetId) # {})

\* Like.findOne({<field>: id, likedBy}): one matching document, or null
toggleLike_findOne(p) ==
    /\ pc[p] = "findOne" /\ req[p].op \in LikeOps
    /\ LET match == {d \in likes : LikeKey(d) = ReqKey(req[p])}
       IN  \E docs \in IF match = {} THEN {{}} ELSE {{d} : d \in match} :
               found' = [found EXCEPT ![p] = docs]
    /\ pc' = [pc EXCEPT ![p] = "write"]
    /\ UNCHANGED <<edges, content, history, req, resp, started>>

\* the branch on existingLike: findByIdAndDelete, or create
toggleLike_write(p) ==
    /\ pc[p] = "write" /\ req[p].op \in LikeOps
    /\ UNCHANGED <<subscriptions, content, initial>>
    /\ IF found[p] # {}
         THEN /\ likes' = UNION {FindByIdAndDelete(likes, d.id) : d \in found[p]}
              /\ UNCHANGED nextId
              /\ Completed(p)
              /\ Respond(p, 200, FALSE)
       ELSE IF DuplicateKey({LikeKey(d) : d \in likes}, ReqKey(req[p]))
         THEN /\ UNCHANGED <<likes, nextId, toggles>>
              /\ Respond(p, 500, FALSE)
       ELSE /\ likes' = likes
                    \cup {LikeDoc(nextId, LikeField(req[p].op), req[p].a, req[p].caller)}
            /\ nextId' = nextId + 1
            /\ Completed(p)
            /\ Respond(p, 200, TRUE)

\* one step of the request in slot p, toggle handlers; at most max requests
\* are received
ToggleStep(p, max) ==
    \/ \E caller \in Users, id \in UserIds : started < max /\ toggleSubscription(p, caller, id)
    \/ toggleSubscription_findOne(p)
    \/ toggleSubscription_write(p)
    \/ \E caller \in Users, id \in VideoIds : started < max /\ toggleVideoLike(p, caller, id)
    \/ \E caller \in Users, id \in CommentIds : started < max /\ toggleCommentLike(p, caller, id)
    \/ \E caller \in Users, id \in TweetIds : started < max /\ toggleTweetLike(p, caller, id)
    \/ toggleLike_findOne(p)
    \/ toggleLike_write(p)

\* ------------------------------------------------------------ content
Video(id, owner, isPublished, title) ==
    [id |-> id, owner |-> owner, isPublished |-> isPublished, title |-> title]
Tweet(id, owner, text) == [id |-> id, owner |-> owner, content |-> text]
Playlist(id, owner, name, vids) == [id |-> id, owner |-> owner, name |-> name, videos |-> vids]

\* findByIdAndUpdate: the collection with update[d] in place of the document d
\* with that _id; unchanged when no document has it
FindByIdAndUpdate(coll, id, update) ==
    {IF d.id = id THEN update[d] ELSE d : d \in coll}

\* the ownership check: doc.owner.toString() !== req.user._id.toString()
\* (a check that lets every caller through)
IsOwnerAnyone(doc, caller) == TRUE
IsOwner(doc, caller) == doc.owner = caller

\* the first await of a handler that mutates one document: validation, then
\* findById, 404 when it finds nothing, 403 when the caller is not the owner
\* (invalid: the 400 checks that come before the findById)
Guarded(p, r, invalid, coll, at) ==
    /\ Arrive(p)
    /\ UNCHANGED <<edges, content, history>>
    /\ LET docs == FindById(coll, r.a)
       IN  IF invalid THEN Reject(p, r, 400)
           ELSE IF docs = {} THEN Reject(p, r, 404)
           ELSE IF \E d \in docs : ~IsOwner(d, r.caller) THEN Reject(p, r, 403)
           ELSE Await(p, r, at, docs)

\* the write of a handler and its 200 response
Write(p, op) ==
    /\ pc[p] = "write" /\ req[p].op = op
    /\ UNCHANGED <<edges, history>>
    /\ Respond(p, 200, FALSE)

\* updateVideo: title stands for the fields of the body (title, description,
\* thumbnail), None when the body has none
updateVideo(p, caller, videoId, title) ==
    Guarded(p, Req("updateVideo", caller, videoId, title),
            ~isValidObjectId(videoId), videos, "write")

\* (an update that replaces the owner too)
SetTitleAndOwner(d, title) == [d EXCEPT !.title = title, !.owner = None]
SetTitle(d, title) == IF title = None THEN d ELSE [d EXCEPT !.title = title]

updateVideo_write(p) ==
    /\ Write(p, "updateVideo")
    /\ LET update == [d \in videos |-> SetTitle(d, req[p].b)]
       IN  videos' = FindByIdAndUpdate(videos, req[p].a, update)
    /\ UNCHANGED <<tweets, playlists>>

deleteVideo(p, caller, videoId) ==
    Guarded(p, Req("deleteVideo", caller, videoId, None),
            ~isValidObjectId(videoId), videos, "write")

\* Video.findByIdAndDelete(videoId): the only store call of the handler
deleteVideo_write(p) ==
    /\ Write(p, "deleteVideo")
    /\ videos' = FindByIdAndDelete(videos, req[p].a)
    /\ UNCHANGED <<tweets, playlists>>

togglePublishStatus(p, caller, videoId) ==
    Guarded(p, Req("togglePublishStatus", caller, videoId, None),
            ~isValidObjectId(videoId), videos, "write")

\* $set isPublished to the negation of the flag the handler read; the response
\* reads updatedVideo.isPublished, which throws when the update found nothing
togglePublishStatus_write(p) ==
    /\ pc[p] = "write" /\ req[p].op = "togglePublishStatus"
    /\ UNCHANGED <<edges, history, tweets, playlists>>
    /\ LET update == [d \in videos |-> [d EXCEPT !.isPublished = \A v \in found[p] : ~v.isPublished]]
       IN  videos' = FindByIdAndUpdate(videos, req[p].a, update)
    /\ IF FindById(videos, req[p].a) = {}
         THEN Respond(p, 500, FALSE)
         ELSE Respond(p, 200, FALSE)

\* content.trim(): "" stands for a missing, empty or blank content
updateTweet(p, caller, tweetId, text) ==
    Guarded(p, Req("updateTweet", caller, tweetId, text),
            ~isValidObjectId(tweetId) \/ text = "", tweets, "write")

updateTweet_write(p) ==
    /\ Write(p, "updateTweet")
    /\ LET update == [d \in tweets |-> [d EXCEPT !.content = req[p].b]]
       IN  tweets' = FindByIdAndUpdate(tweets, req[p].a, update)
    /\ UNCHANGED <<videos, playlists>>

deleteTweet(p, caller, tweetId) ==
    Guarded(p, Req("deleteTweet", caller, tweetId, None),
            ~isValidObjectId(tweetId), tweets, "write")

deleteTweet_write(p) ==
    /\ Write(p, "deleteTweet")
    /\ tweets' = FindByIdAndDelete(tweets, req[p].a)
    /\ UNCHANGED <<videos, playlists>>

\* the elements of a list
Range(seq) == {seq[i] : i \in 1..Len(seq)}

\* playlist.videos.includes(videoId)
\* (a membership check that never finds the video)
IncludesNever(vids, videoId) == FALSE
Includes(vids, videoId) == videoId \in Range(vids)

\* $addToSet: appends the value unless the list has it
\* ($push: appends the value whether or not the list has it)
Push(vids, videoId) == Append(vids, videoId)
AddToSet(vids, videoId) == IF videoId \in Range(vids) THEN vids ELSE Append(vids, videoId)

\* $pull: removes every occurrence of the value
\* ($pop: removes the first entry)
Pop(vids, videoId) == IF vids = <<>> THEN vids ELSE Tail(vids)
Pull(vids, videoId) == SelectSeq(vids, LAMBDA v : v # videoId)

\* addVideoToPlaylist up to its second await: validation of both ids and
\* Playlist.findById; then the handler awaits Video.findById
addVideoToPlaylist(p, caller, playlistId, videoId) ==
    /\ Arrive(p)
    /\ UNCHANGED <<edges, content, history>>
    /\ LET r == Req("addVideoToPlaylist", caller, playlistId, videoId)
           docs == FindById(playlists, playlistId)
       IN  IF ~isValidObjectId(playlistId) \/ ~isValidObjectId(videoId)
             THEN Reject(p, r, 400)
           ELSE IF docs = {} THEN Reject(p, r, 404)
           ELSE Await(p, r, "findVideo", docs)

\* Video.findById, then the ownership check and the membership check on the
\* playlist the handler read
\* (a handler that adds the video before its checks, and again after them)
addVideoToPlaylist_findVideoEager(p) ==
    /\ pc[p] = "findVideo" /\ req[p].op = "addVideoToPlaylist"
    /\ UNCHANGED <<edges, history, videos, tweets>>
    /\ LET update == [d \in playlists |-> [d EXCEPT !.videos = AddToSet(@, req[p].b)]]
       IN  playlists' = FindByIdAndUpdate(playlists, req[p].a, update)
    /\ pc' = [pc EXCEPT ![p] = "write"]
    /\ UNCHANGED <<req, found, resp, started>>
addVideoToPlaylist_findVideo(p) ==
    /\ pc[p] = "findVideo" /\ req[p].op = "addVideoToPlaylist"
    /\ UNCHANGED <<edges, content, history>>
    /\ IF FindById(videos, req[p].b) = {} THEN Respond(p, 404, FALSE)
       ELSE IF \E d \in found[p] : ~IsOwner(d, req[p].caller) THEN Respond(p, 403, FALSE)
       ELSE IF \E d \in found[p] : Includes(d.videos, req[p].b) THEN Respond(p, 400, FALSE)
       ELSE /\ pc' = [pc EXCEPT ![p] = "write"]
            /\ UNCHANGED <<req, found, resp, started>>

addVideoToPlaylist_write(p) ==
    /\ Write(p, "addVideoToPlaylist")
    /\ LET update == [d \in playlists |-> [d EXCEPT !.videos = AddToSet(@, req[p].b)]]
       IN  playlists' = FindByIdAndUpdate(playlists, req[p].a, update)
    /\ UNCHANGED <<videos, tweets>>

removeVideoFromPlaylist(p, caller, playlistId, videoId) ==
    Guarded(p, Req("removeVideoFromPlaylist", caller, playlistId, videoId),
            ~isValidObjectId(playlistId) \/ ~isValidObjectId(videoId), playlists, "write")

removeVideoFromPlaylist_write(p) ==
    /\ Write(p, "removeVideoFromPlaylist")
    /\ LET update == [d \in playlists |-> [d EXCEPT !.videos = Pull(@, req[p].b)]]
       IN  playlists' = FindByIdAndUpdate(playlists, req[p].a, update)
    /\ UNCHANGED <<videos, tweets>>

deletePlaylist(p, caller, playlistId) ==
    Guarded(p, Req("deletePlaylist", caller, playlistId, None),
            ~isValidObjectId(playlistId), playlists, "write")

deletePlaylist_write(p) ==
    /\ Write(p, "deletePlaylist")
    /\ playlists' = FindByIdAndDelete(playlists, req[p].a)
    /\ UNCHANGED <<videos, tweets>>

\* updatePlaylist: name stands for the fields of the body (name, description),
\* None when neither is given or both are blank; that check comes after the
\* ownership check
updatePlaylist(p, caller, playlistId, name) ==
    /\ Arrive(p)
    /\ UNCHANGED <<edges, content, history>>
    /\ LET r == Req("updatePlaylist", caller, playlistId, name)
           docs == FindById(playlists, playlistId)
       IN  IF ~isValidObjectId(playlistId) THEN Reject(p, r, 400)
           ELSE IF docs = {} THEN Reject(p, r, 404)
           ELSE IF \E d \in docs : ~IsOwner(d, caller) THEN Reject(p, r, 403)
           ELSE IF name = None THEN Reject(p, r, 400)
           ELSE Await(p, r, "write", docs)

updatePlaylist_write(p) ==
    /\ Write(p, "updatePlaylist")
    /\ LET update == [d \in playlists |-> [d EXCEPT !.name = req[p].b]]
       IN  playlists' = FindByIdAndUpdate(playlists, req[p].a, update)
    /\ UNCHANGED <<videos, tweets>>

ContentOps ==
    {"updateVideo", "deleteVideo", "togglePublishStatus", "updateTweet", "deleteTweet",
     "addVideoToPlaylist", "removeVideoFromPlaylist", "deletePlaylist", "updatePlaylist"}

\* one step of the request in slot p, handlers that mutate content; at most
\* max requests are received
ContentStep(p, max) ==
    \/ \E caller \in Users, id \in VideoIds, title \in {None, "b"} :
          started < max /\ updateVideo(p, caller, id, title)
    \/ updateVideo_write(p)
    \/ \E caller \in Users, id \in VideoIds : started < max /\ deleteVideo(p, caller, id)
    \/ deleteVideo_write(p)
    \/ \E caller \in Users, id \in VideoIds : started < max /\ togglePublishStatus(p, caller, id)
    \/ togglePublishStatus_write(p)
    \/ \E caller \in Users, id \in TweetIds, text \in {"", "b"} :
          started < max /\ updateTweet(p, caller, id, text)
    \/ updateTweet_write(p)
    \/ \E caller \in Users, id \in TweetIds : started < max /\ deleteTweet(p, caller, id)
    \/ deleteTweet_write(p)
    \/ \E caller \in Users, id \in PlaylistIds, vid \in VideoIds :
          started < max /\ addVideoToPlaylist(p, caller, id, vid)
    \/ addVideoToPlaylist_findVideo(p)
    \/ addVideoToPlaylist_write(p)
    \/ \E caller \in Users, id \in PlaylistIds, vid \in VideoIds :
          started < max /\ removeVideoFromPlaylist(p, caller, id, vid)
    \/ removeVideoFromPlaylist_write(p)
    \/ \E caller \in Users, id \in PlaylistIds : started < max /\ deletePlaylist(p, caller, id)
    \/ deletePlaylist_write(p)
    \/ \E caller \in Users, id \in PlaylistIds, name \in {None, "b"} :
          started < max /\ updatePlaylist(p, caller, id, name)
    \/ updatePlaylist_write(p)

\* ---------------------------------------------------------- initial states
\* video v1, tweet t1 and playlist p1 exist and belong to u1
InitContent ==
    /\ videos = {Video("v1", "u1", TRUE, "a")}
    /\ tweets = {Tweet("t1", "u1", "a")}
    /\ playlists = {Playlist("p1", "u1", "a", <<>>)}

\* no likes yet; u1 may already follow u2
InitEdges ==
    /\ subscriptions \in {{}, {SubDoc(1, "u1", "u2")}}
    /\ likes = {}
    /\ nextId = 2

InitSlots ==
    /\ pc = [p \in Procs |-> "idle"]
    /\ req = [p \in Procs |-> NoReq]
    /\ found = [p \in Procs |-> {}]
    /\ resp = NoResp
    /\ started = 0

\* the edges a toggle can address: kind, source, existing target
Keys ==
    {k \in {"channel"} \X Users \X Users : k[2] # k[3]} \cup ({"video"} \X Users \X {"v1"})
    \cup ({"Comment"} \X Users \X Comments) \cup ({"tweet"} \X Users \X {"t1"})

EdgeKeys == {SubKey(d) : d \in subscriptions} \cup {LikeKey(d) : d \in likes}
Present(k) == k \in EdgeKeys
\* the number of documents the stores hold for edge k
Count(k) == Cardinality({d \in subscriptions : SubKey(d) = k})
            + Cardinality({d \in likes : LikeKey(d) = k})

InitHistory ==
    /\ initial = EdgeKeys
    /\ toggles = [k \in Keys |-> 0]

Init == InitEdges /\ InitContent /\ InitSlots /\ InitHistory

\* ------------------------------------------------- concurrent toggles
NextToggle == \E p \in Procs : ToggleStep(p, MaxToggles)

SpecToggle == Init /\ [][NextToggle]_vars

\* ----------------------------------------------- toggles one at a time
\* a request is received only after the previous one was answered
NextSeqToggle ==
    \E p \in Procs : /\ \A q \in Procs : Idle(q) \/ q = p
                     /\ ToggleStep(p, MaxToggles)

SpecSeqToggle == Init /\ [][NextSeqToggle]_vars

\* ------------------------------------------------- content mutations
\* u2 likes v1
InitLiked ==
    /\ subscriptions = {}
    /\ likes = {LikeDoc(1, "video", "v1", "u2")}
    /\ nextId = 2

InitMutate == InitLiked /\ InitContent /\ InitSlots /\ InitHistory

NextContent == \E p \in Procs : ContentStep(p, MaxMutations)

SpecContent == InitMutate /\ [][NextContent]_vars

\* ------------------------------------------------------------ read views
\* A query-string parameter is a string, modelled as the sequence of its
\* characters; <<>> is a parameter that is not given.
Absent == <<>>
Digits == <<"0", "1", "2", "3", "4", "5", "6", "7", "8", "9">>
IsDigit(c) == \E i \in 1..Len(Digits) : Digits[i] = c
DigitValue(c) == (CHOOSE i \in 1..Len(Digits) : Digits[i] = c) - 1

\* parseInt: the number written by the leading digits of the string (the
\* requests of the model all start with a digit)
RECURSIVE ParseDigits(_, _)
ParseDigits(s, n) ==
    IF s = <<>> \/ ~IsDigit(Head(s)) THEN n
    ELSE ParseDigits(Tail(s), 10 * n + DigitValue(Head(s)))
parseInt(s) == ParseDigits(s, 0)

\* const { page = 1, limit = 10, ... } = req.query
DefaultPage == <<"1">>
DefaultLimit == <<"1", "0">>
\* (options that leave the request's page and limit aside)
OptionsDefault(page, limit) ==
    [page |-> parseInt(DefaultPage), limit |-> parseInt(DefaultLimit)]
Options(page, limit) ==
    [page |-> parseInt(IF page = Absent THEN DefaultPage ELSE page),
     limit |-> parseInt(IF limit = Absent THEN DefaultLimit ELSE limit)]

\* the query of a list request
Query(page, limit, query, sortBy, sortType, status) ==
    [page |-> page, limit |-> limit, query |-> query,
     sortBy |-> sortBy, sortType |-> sortType, status |-> status]

\* documents with the fields the read views use
VideoDoc(id, owner, isPublished, title, createdAt, views) ==
    [id |-> id, owner |-> owner, isPublished |-> isPublished, title |-> title,
     description |-> <<>>, createdAt |-> createdAt, views |-> views]
TweetDoc(id, owner, text, createdAt) ==
    [id |-> id, owner |-> owner, content |-> text, createdAt |-> createdAt]
PlaylistDoc(id, owner, name, vids, createdAt) ==
    [id |-> id, owner |-> owner, name |-> name, videos |-> vids, createdAt |-> createdAt]
SubscriptionDoc(id, subscriber, channel, createdAt) ==
    [id |-> id, subscriber |-> subscriber, channel |-> channel, createdAt |-> createdAt]

\* the Comment collection: no handler of these controllers writes it
comments ==
    {[id |-> "c1", video |-> "v1"], [id |-> "c2", video |-> "v1"],
     [id |-> "c3", video |-> "v2"]}

\* the stages of an aggregation pipeline
\* $match: {field: value, ...}
Cond(field, value) == [field |-> field, value |-> value]
Match(conds) == [stage |-> "$match", conds |-> conds]
\* {$or: [{title: {$regex: query, $options: "i"}}, {description: ...}]}
Or(query) == Cond("$or", query)
Sort(field, direction) == [stage |-> "$sort", field |-> field, direction |-> direction]
Lookup(from, localField, foreignField, as) ==
    [stage |-> "$lookup", from |-> from, localField |-> localField,
     foreignField |-> foreignField, as |-> as]
\* $addFields: {field: {$first: "$of"}}, {field: {$size: "$of"}}
First(field, of) == [field |-> field, operator |-> "$first", of |-> of]
Size(field, of) == [field |-> field, operator |-> "$size", of |-> of]
AddFields(fields) == [stage |-> "$addFields", fields |-> fields]
\* $project: {field: 0, ...}
Project(fields) == [stage |-> "$project", fields |-> fields]

\* the documents of a set as an array, in the order the store keeps them
RECURSIVE Natural(_)
Natural(S) ==
    IF S = {} THEN <<>>
    ELSE LET d == CHOOSE d \in S : TRUE IN <<d>> \o Natural(S \ {d})

\* document d with field f set to v, and without field f
Set(d, f, v) == [g \in DOMAIN d \cup {f} |-> IF g = f THEN v ELSE d[g]]
Unset(d, f) == [g \in DOMAIN d \ {f} |-> d[g]]

\* the value of field f of document d; a Like document has one of the fields
\* video, Comment, tweet
Get(d, f) ==
    IF f = "_id" THEN d.id
    ELSE IF "field" \in DOMAIN d /\ f \notin DOMAIN d
      THEN (IF d.field = f THEN d.target ELSE None)
    ELSE d[f]

\* $regex with $options "i": the text contains the query, letter case aside
\* (the queries of the model are letters, no regex operators)
toLower(c) == IF c = "A" THEN "a" ELSE IF c = "B" THEN "b" ELSE c
Regex(text, query) ==
    \E i \in 0..(Len(text) - Len(query)) :
        \A j \in 1..Len(query) : toLower(text[i + j]) = toLower(query[j])

\* the collection a $lookup joins
From(name) ==
    CASE name = "users" -> {[id |-> u] : u \in Users}
      [] name = "likes" -> likes
      [] name = "comments" -> comments

\* $sort: every order of the documents S in which the keys run in the
\* direction asked for; the order among documents with equal keys is open
RECURSIVE Sorted(_, _, _)
Sorted(S, field, direction) ==
    IF S = {} THEN {<<>>}
    ELSE LET first == {d \in S : \A e \in S :
                          IF direction = 1 THEN d[field] <= e[field]
                          ELSE d[field] >= e[field]}
         IN  UNION {{<<d>> \o s : s \in Sorted(S \ {d}, field, direction)} : d \in first}

\* $lookup: the documents of the joined collection that match document d
Joined(d, st) ==
    Natural({c \in From(st.from) : Get(c, st.foreignField) = Get(d, st.localField)})

\* $size: the length of the array; $first: its first element, kept as an
\* array of one, or nothing when the array is empty
RECURSIVE AddedFields(_, _)
AddedFields(d, fields) ==
    IF fields = <<>> THEN d
    ELSE LET f == Head(fields)
             v == IF f.operator = "$size" THEN Len(d[f.of])
                  ELSE IF d[f.of] = <<>> THEN <<>> ELSE <<Head(d[f.of])>>
         IN  AddedFields(Set(d, f.field, v), Tail(fields))

RECURSIVE Projected(_, _)
Projected(d, fields) ==
    IF fields = <<>> THEN d ELSE Projected(Unset(d, Head(fields)), Tail(fields))

\* a condition of a $match
\* (a condition every document meets)
HoldsAlways(d, c) == TRUE
Holds(d, c) ==
    IF c.field = "$or" THEN Regex(d.title, c.value) \/ Regex(d.description, c.value)
    ELSE d[c.field] = c.value

\* the outputs one stage can produce on the input s
Apply(st, s) ==
    CASE st.stage = "$match" ->
           {SelectSeq(s, LAMBDA d : \A k \in 1..Len(st.conds) : Holds(d, st.conds[k]))}
      [] st.stage = "$sort" ->
           Sorted(Range(s), st.field, st.direction)
      [] st.stage = "$lookup" ->
           {[i \in 1..Len(s) |-> Set(s[i], st.as, Joined(s[i], st))]}
      [] st.stage = "$addFields" ->
           {[i \in 1..Len(s) |-> AddedFields(s[i], st.fields)]}
      [] st.stage = "$project" ->
           {[i \in 1..Len(s) |-> Projected(s[i], st.fields)]}

RECURSIVE Exec(_, _)
Exec(pipeline, outs) ==
    IF pipeline = <<>> THEN outs
    ELSE Exec(Tail(pipeline), UNION {Apply(Head(pipeline), s) : s \in outs})

\* Model.aggregate(pipeline): the outputs the pipeline can produce on the
\* collection
aggregate(coll, pipeline) == Exec(pipeline, {Natural(coll)})

\* aggregatePaginate(aggregate, options): the window of limit documents that
\* starts at offset (page - 1) * limit, with the size of the whole output
Ceil(n, d) == (n + d - 1) \div d
Window(out, page, limit) ==
    SubSeq(out, (page - 1) * limit + 1,
           IF page * limit < Len(out) THEN page * limit ELSE Len(out))
aggregatePaginate(out, options) ==
    [docs |-> Window(out, options.page, options.limit),
     totalDocs |-> Len(out),
     limit |-> options.limit,
     page |-> options.page,
     totalPages |-> Ceil(Len(out), options.limit)]

\* the response to a read request r: status and payload
RespData(r, status, data) ==
    [op |-> r.op, caller |-> r.caller, a |-> r.a, b |-> r.b,
     status |-> status, flag |-> FALSE, data |-> data]

\* a list handler from the request to the response: the checks of the path id,
\* then the pipeline, run under aggregatePaginate.  The store calls of a list
\* handler read only; the User collection they read first never changes.
List(p, r, invalid, missing, coll, pipeline) ==
    /\ Arrive(p)
    /\ UNCHANGED <<edges, content, history>>
    /\ IF invalid THEN Reject(p, r, 400)
       ELSE IF missing THEN Reject(p, r, 404)
       ELSE /\ \E out \in aggregate(coll, pipeline) :
                 resp' = RespData(r, 200,
                                  aggregatePaginate(out, Options(r.b.page, r.b.limit)))
            /\ UNCHANGED <<pc, req, found>>

\* the $sort of getAllVideos
\* (a default sort by oldest)
SortStageOldest(sortBy, sortType) ==
    IF sortBy # None /\ sortType # None
      THEN Sort(sortBy, IF sortType = "asc" THEN 1 ELSE -1)
    ELSE Sort("createdAt", 1)
SortStage(sortBy, sortType) ==
    IF sortBy # None /\ sortType # None
      THEN Sort(sortBy, IF sortType = "asc" THEN 1 ELSE -1)
    ELSE Sort("createdAt", -1)

getAllVideosPipeline(q, userId) ==
    <<Match(<<Cond("isPublished", TRUE)>>)>>
    \o (IF userId # None /\ isValidObjectId(userId)
          THEN <<Match(<<Cond("owner", userId)>>)>> ELSE <<>>)
    \o (IF q.query # Absent THEN <<Match(<<Or(q.query)>>)>> ELSE <<>>)
    \o <<SortStage(q.sortBy, q.sortType),
         Lookup("users", "owner", "_id", "owner"),
         AddFields(<<First("owner", "owner")>>)>>

getAllVideos(p, q, userId) ==
    List(p, Req("getAllVideos", None, userId, q), FALSE, FALSE,
         videos, getAllVideosPipeline(q, userId))

\* const { ..., status = "all" } = req.query
getChannelVideosPipeline(q, caller) ==
    <<Match(<<Cond("owner", caller)>>
            \o (IF q.status = "published" THEN <<Cond("isPublished", TRUE)>>
                ELSE IF q.status = "draft" THEN <<Cond("isPublished", FALSE)>>
                ELSE <<>>)),
      Lookup("likes", "_id", "video", "likes"),
      Lookup("comments", "_id", "video", "comments"),
      AddFields(<<Size("likeCount", "likes"), Size("commentCount", "comments")>>),
      Project(<<"likes", "comments">>),
      Sort("createdAt", -1)>>

getChannelVideos(p, caller, q) ==
    List(p, Req("getChannelVideos", caller, None, q), FALSE, FALSE,
         videos, getChannelVideosPipeline(q, caller))

getUserTweetsPipeline(userId) ==
    <<Match(<<Cond("owner", userId)>>),
      Lookup("users", "owner", "_id", "owner"),
      AddFields(<<First("owner", "owner")>>),
      Sort("createdAt", -1)>>

getUserTweets(p, userId, q) ==
    List(p, Req("getUserTweets", None, userId, q),
         ~isValidObjectId(userId), userId \notin Users,
         tweets, getUserTweetsPipeline(userId))

getUserPlaylistsPipeline(userId) ==
    <<Match(<<Cond("owner", userId)>>),
      Lookup("users", "owner", "_id", "owner"),
      AddFields(<<First("owner", "owner"), Size("videoCount", "videos")>>),
      Sort("createdAt", -1)>>

getUserPlaylists(p, userId, q) ==
    List(p, Req("getUserPlaylists", None, userId, q),
         ~isValidObjectId(userId), userId \notin Users,
         playlists, getUserPlaylistsPipeline(userId))

\* the handler runs the pipeline twice and answers with the paginated run
getUserChannelSubscribersPipeline(channelId) ==
    <<Match(<<Cond("channel", channelId)>>),
      Lookup("users", "subscriber", "_id", "subscriber"),
      AddFields(<<First("subscriber", "subscriber")>>),
      Sort("createdAt", -1)>>

getUserChannelSubscribers(p, channelId, q) ==
    List(p, Req("getUserChannelSubscribers", None, channelId, q),
         ~isValidObjectId(channelId), channelId \notin Users,
         subscriptions, getUserChannelSubscribersPipeline(channelId))

ListOps ==
    {"getAllVideos", "getChannelVideos", "getUserTweets", "getUserPlaylists",
     "getUserChannelSubscribers"}

\* the pipeline the handler of list request r builds
Pipeline(r) ==
    CASE r.op = "getAllVideos" -> getAllVideosPipeline(r.b, r.a)
      [] r.op = "getChannelVideos" -> getChannelVideosPipeline(r.b, r.caller)
      [] r.op = "getUserTweets" -> getUserTweetsPipeline(r.a)
      [] r.op = "getUserPlaylists" -> getUserPlaylistsPipeline(r.a)
      [] r.op = "getUserChannelSubscribers" -> getUserChannelSubscribersPipeline(r.a)

\* the page and limit parameters of the requests
PageParams == {Absent, <<"2">>, <<"3">>}
LimitParams == {<<"1">>, <<"2">>, <<"1", "0", "1">>}
\* a list request with page and limit only
Paging(page, limit) == Query(page, limit, Absent, None, None, None)

\* one step of the request in slot p, list handlers; at most max requests are
\* received
ReadStep(p, max) ==
    \/ \E page \in PageParams, limit \in LimitParams, query \in {Absent, <<"B">>},
          sort \in {<<None, None>>, <<"views", "asc">>}, userId \in {None, "u1", "bad"} :
          /\ started < max
          /\ getAllVideos(p, Query(page, limit, query, sort[1], sort[2], None), userId)
    \/ \E caller \in Users, page \in {Absent, <<"2">>}, limit \in {Absent, <<"1">>},
          status \in {None, "published", "draft"} :
          /\ started < max
          /\ getChannelVideos(p, caller, Query(page, limit, Absent, None, None, status))
    \/ \E userId \in UserIds, page \in {Absent, <<"2">>}, limit \in {Absent, <<"1">>} :
          started < max /\ getUserTweets(p, userId, Paging(page, limit))
    \/ \E userId \in UserIds, page \in {Absent, <<"2">>}, limit \in {Absent, <<"1">>} :
          started < max /\ getUserPlaylists(p, userId, Paging(page, limit))
    \/ \E channelId \in UserIds, page \in {Absent, <<"2">>}, limit \in {Absent, <<"1">>} :
          started < max /\ getUserChannelSubscribers(p, channelId, Paging(page, limit))

\* the stores the list requests are run against: no video, one video, or
\* five: three published ones and a draft of u1 and a published one of u2,
\* some of them created at the same time
InitRead ==
    /\ videos \in
         {{}, {VideoDoc("v1", "u1", TRUE, <<"a", "b">>, 1, 2)},
          {VideoDoc("v1", "u1", TRUE, <<"a", "b">>, 1, 2),
           VideoDoc("v2", "u1", TRUE, <<"b", "b">>, 2, 0),
           VideoDoc("v3", "u2", TRUE, <<"a", "a">>, 2, 1),
           VideoDoc("v4", "u1", FALSE, <<"a", "b">>, 3, 0),
           VideoDoc("v5", "u1", TRUE, <<"B", "a">>, 3, 1)}}
    /\ tweets = {TweetDoc("t1", "u1", "a", 1), TweetDoc("t2", "u1", "b", 2)}
    /\ playlists = {PlaylistDoc("p1", "u1", "a", <<"v1", "v2">>, 1)}
    /\ subscriptions = {SubscriptionDoc(1, "u1", "u2", 1), SubscriptionDoc(2, "u2", "u1", 2)}
    /\ likes = {LikeDoc(3, "video", "v1", "u2")}
    /\ nextId = 4
    /\ InitSlots
    /\ InitHistory

NextRead == \E p \in Procs : ReadStep(p, MaxReads)

SpecRead == InitRead /\ [][NextRead]_vars

\* ------------------------------------------------------------- dashboard
\* the $group of getChannelStats: one document with the sum of the views, and
\* no document when no video matches
RECURSIVE Sum(_)
Sum(S) == IF S = {} THEN 0 ELSE LET d == CHOOSE d \in S : TRUE IN d.views + Sum(S \ {d})
Group(S) == IF S = {} THEN <<>> ELSE <<[totalViews |-> Sum(S)]>>

\* Like.countDocuments({video: {$in: ids}})
\* (a count of every Like document)
CountLikesAll(ids) == Cardinality(likes)
CountLikes(ids) == Cardinality({d \in likes : Get(d, "video") \in ids})

\* Subscription.countDocuments({channel: userId})
\* (a count that is zero for a channel without videos)
CountSubscribersOfContent(userId) ==
    IF \A d \in videos : d.owner # userId THEN 0
    ELSE Cardinality({d \in subscriptions : d.channel = userId})
CountSubscribers(userId) == Cardinality({d \in subscriptions : d.channel = userId})

\* getChannelStats: the store calls of the handler read only, and the model
\* takes them against one state of the store
getChannelStats(p, caller) ==
    /\ Arrive(p)
    /\ UNCHANGED <<edges, content, history, pc, req, found>>
    /\ LET owned == {d \in videos : d.owner = caller}
           totalViews == Group(owned)
           ids == {d.id : d \in owned}
           stats == [totalVideos |-> Cardinality(owned),
                     totalViews |-> IF totalViews = <<>> THEN 0 ELSE totalViews[1].totalViews,
                     totalSubscribers |-> CountSubscribers(caller),
                     totalLikes |-> CountLikes(ids),
                     totalComments |-> Cardinality({d \in comments : d.video \in ids})]
       IN  resp' = RespData(Req("getChannelStats", caller, None, None), 200, stats)

\* one step of the request in slot p: likes, subscriptions and the dashboard
StatsStep(p, max) ==
    \/ \E caller \in Users, id \in {"v1", "v9"} : started < max /\ toggleVideoLike(p, caller, id)
    \/ \E caller \in Users : started < max /\ toggleCommentLike(p, caller, "c1")
    \/ toggleLike_findOne(p)
    \/ toggleLike_write(p)
    \/ \E caller \in Users, id \in Users : started < max /\ toggleSubscription(p, caller, id)
    \/ toggleSubscription_findOne(p)
    \/ toggleSubscription_write(p)
    \/ \E caller \in Users : started < max /\ getChannelStats(p, caller)

\* v1 belongs to u1; a second video may belong to u1 or to u2; no video is
\* liked yet
InitStats ==
    /\ videos \in
         {{VideoDoc("v1", "u1", TRUE, <<"a">>, 1, 2)},
          {VideoDoc("v1", "u1", TRUE, <<"a">>, 1, 2), VideoDoc("v2", "u1", FALSE, <<"b">>, 2, 3)},
          {VideoDoc("v1", "u1", TRUE, <<"a">>, 1, 2), VideoDoc("v2", "u2", TRUE, <<"b">>, 2, 3)}}
    /\ tweets = {}
    /\ playlists = {}
    /\ subscriptions \in {{}, {SubDoc(1, "u1", "u2")}}
    /\ likes = {}
    /\ nextId = 2
    /\ InitSlots
    /\ InitHistory

\* a request is received only after the previous one was answered
NextStats ==
    \E p \in Procs : /\ \A q \in Procs : Idle(q) \/ q = p
                     /\ StatsStep(p, MaxStats)

SpecStats == InitStats /\ [][NextStats]_vars

\* ------------------------------------------------------------- the feed
\* the sortBy and sortType parameters of the feed requests
SortParams ==
    {<<None, None>>, <<None, "asc">>, <<"views", None>>, <<"views", "asc">>,
     <<"views", "desc">>, <<"createdAt", "asc">>}

\* one step of the request in slot p: the public feed, and the owner's
\* publish switch; at most max requests are received
FeedStep(p, max) ==
    \/ \E limit \in {Absent, <<"2">>}, sort \in SortParams, userId \in {None, "u1"} :
          /\ started < max
          /\ getAllVideos(p, Query(Absent, limit, Absent, sort[1], sort[2], None), userId)
    \/ \E caller \in Users, videoId \in {"v1", "v4"} :
          started < max /\ togglePublishStatus(p, caller, videoId)
    \/ togglePublishStatus_write(p)

\* three published videos whose creation order is not their order by views,
\* and a draft
InitFeed ==
    /\ videos = {VideoDoc("v1", "u1", TRUE, <<"a">>, 1, 2),
                 VideoDoc("v2", "u1", TRUE, <<"b">>, 2, 0),
                 VideoDoc("v3", "u2", TRUE, <<"a">>, 3, 1),
                 VideoDoc("v4", "u2", FALSE, <<"b">>, 4, 3)}
    /\ tweets = {}
    /\ playlists = {}
    /\ InitEdges
    /\ InitSlots
    /\ InitHistory

NextFeed == \E p \in Procs : FeedStep(p, MaxFeed)

SpecFeed == InitFeed /\ [][NextFeed]_vars

\* ------------------------------------------------------- the view counter
\* { $inc: { field: n } }
Inc(d, field, n) == [d EXCEPT ![field] = @ + n]

\* the history key of the completed getVideoById requests of a video
ViewKey(videoId) == <<"views", None, videoId>>

\* getVideoById up to its second await: the id check and Video.findById; the
\* route is public, there is no caller
getVideoById(p, videoId) ==
    /\ Arrive(p)
    /\ UNCHANGED <<edges, content, history>>
    /\ LET r == Req("getVideoById", None, videoId, None)
           docs == FindById(videos, videoId)
       IN  IF ~isValidObjectId(videoId) THEN Reject(p, r, 400)
           ELSE IF docs = {} THEN Reject(p, r, 404)
           ELSE Await(p, r, "inc", docs)

\* (an increment computed from the document the handler read)
getVideoById_incStale(p) ==
    /\ pc[p] = "inc" /\ req[p].op = "getVideoById"
    /\ LET update == [d \in videos |-> [d EXCEPT !.views = (CHOOSE v \in found[p] : TRUE).views + 1]]
       IN  videos' = FindByIdAndUpdate(videos, req[p].a, update)
    /\ pc' = [pc EXCEPT ![p] = "aggregate"]
    /\ UNCHANGED <<edges, history, tweets, playlists, req, found, resp, started>>
\* Video.findByIdAndUpdate(videoId, { $inc: { views: 1 } }): the store adds 1
\* to the counter it holds; then the handler awaits the aggregate
getVideoById_inc(p) ==
    /\ pc[p] = "inc" /\ req[p].op = "getVideoById"
    /\ LET update == [d \in videos |-> Inc(d, "views", 1)]
       IN  videos' = FindByIdAndUpdate(videos, req[p].a, update)
    /\ pc' = [pc EXCEPT ![p] = "aggregate"]
    /\ UNCHANGED <<edges, history, tweets, playlists, req, found, resp, started>>

\* the documents hold their _id in the field id
getVideoByIdPipeline(videoId) ==
    <<Match(<<Cond("id", videoId)>>),
      Lookup("users", "owner", "_id", "owner"),
      AddFields(<<First("owner", "owner")>>)>>

\* Video.aggregate and the 200 response; data holds videoWithOwner[0], and
\* nothing when the video is gone
getVideoById_aggregate(p) ==
    /\ pc[p] = "aggregate" /\ req[p].op = "getVideoById"
    /\ \E out \in aggregate(videos, getVideoByIdPipeline(req[p].a)) :
           resp' = RespData(req[p], 200, IF out = <<>> THEN <<>> ELSE <<out[1]>>)
    /\ pc' = [pc EXCEPT ![p] = "idle"]
    /\ req' = [req EXCEPT ![p] = NoReq]
    /\ found' = [found EXCEPT ![p] = {}]
    /\ toggles' = [toggles EXCEPT ![ViewKey(req[p].a)] = @ + 1]
    /\ UNCHANGED <<edges, content, initial, started>>

\* one step of the request in slot p: viewers of a video, and its owner's
\* updates and deletion; at most max requests are received
ViewStep(p, max) ==
    \/ \E videoId \in VideoIds : started < max /\ getVideoById(p, videoId)
    \/ getVideoById_inc(p)
    \/ getVideoById_aggregate(p)
    \/ \E caller \in Users : started < max /\ updateVideo(p, caller, "v1", "b")
    \/ updateVideo_write(p)
    \/ \E caller \in Users : started < max /\ deleteVideo(p, caller, "v1")
    \/ deleteVideo_write(p)

\* the videos before the first request
ViewVideos ==
    {VideoDoc("v1", "u1", TRUE, "a", 1, 0), VideoDoc("v2", "u2", FALSE, "a", 2, 7)}

InitView ==
    /\ videos = ViewVideos
    /\ tweets = {}
    /\ playlists = {}
    /\ InitEdges
    /\ InitSlots
    /\ initial = EdgeKeys
    /\ toggles = [k \in {ViewKey(d.id) : d \in ViewVideos} |-> 0]

NextView == \E p \in Procs : ViewStep(p, MaxViews)

SpecView == InitView /\ [][NextView]_vars

\* ------------------------------------------------------------- creation
\* the _id the store gives the next created video, tweet and playlist
NewVideoId == "v9"
NewTweetId == "t9"
NewPlaylistId == "p9"

\* the handler of request r has made its create and awaits the findById of
\* the created document
Created(p, r) == Await(p, r, "findById", {})

\* the findById of the created document and the 201 response
Reread(p, op) ==
    /\ pc[p] = "findById" /\ req[p].op = op
    /\ UNCHANGED <<edges, content, history>>

\* createTweet up to its second await: the content check and Tweet.create
\* with owner: req.user._id
createTweet(p, caller, text) ==
    /\ Arrive(p)
    /\ UNCHANGED <<edges, history, videos, playlists>>
    /\ LET r == Req("createTweet", caller, NewTweetId, text)
       IN  IF text = "" THEN Reject(p, r, 400) /\ UNCHANGED tweets
           ELSE /\ FindById(tweets, NewTweetId) = {}
                /\ tweets' = tweets \cup {Tweet(NewTweetId, caller, text)}
                /\ Created(p, r)

\* Tweet.findById(tweet._id).populate(...); the response is 201 whatever it
\* returns
createTweet_findById(p) ==
    /\ Reread(p, "createTweet")
    /\ Respond(p, 201, FALSE)

\* createPlaylist up to its second await: the checks of name and description
\* (name stands for both) and Playlist.create with owner: req.user._id
createPlaylist(p, caller, name) ==
    /\ Arrive(p)
    /\ UNCHANGED <<edges, history, videos, tweets>>
    /\ LET r == Req("createPlaylist", caller, NewPlaylistId, name)
       IN  IF name = None THEN Reject(p, r, 400) /\ UNCHANGED playlists
           ELSE /\ FindById(playlists, NewPlaylistId) = {}
                /\ playlists' = playlists \cup {Playlist(NewPlaylistId, caller, name, <<>>)}
                /\ Created(p, r)

createPlaylist_findById(p) ==
    /\ Reread(p, "createPlaylist")
    /\ Respond(p, 201, FALSE)

\* publishAVideo up to its first await: the checks of title, description and
\* the two files (title stands for all four); then the handler awaits the
\* uploads to the media service
publishAVideo(p, caller, title) ==
    /\ Arrive(p)
    /\ UNCHANGED <<edges, content, history>>
    /\ LET r == Req("publishAVideo", caller, NewVideoId, title)
       IN  IF title = None THEN Reject(p, r, 400)
           ELSE Await(p, r, "create", {})

\* the uploads are back: an upload that failed ends the request with 400,
\* otherwise Video.create with owner: req.user._id and isPublished: true
publishAVideo_create(p) ==
    /\ pc[p] = "create" /\ req[p].op = "publishAVideo"
    /\ UNCHANGED <<edges, history, tweets, playlists>>
    /\ \/ /\ Respond(p, 400, FALSE)
          /\ UNCHANGED videos
       \/ /\ FindById(videos, NewVideoId) = {}
          /\ videos' = videos \cup {Video(NewVideoId, req[p].caller, TRUE, req[p].b)}
          /\ pc' = [pc EXCEPT ![p] = "findById"]
          /\ UNCHANGED <<req, found, resp, started>>

\* Video.findById(video._id): 500 when the video is gone, else 201
publishAVideo_findById(p) ==
    /\ Reread(p, "publishAVideo")
    /\ IF FindById(videos, NewVideoId) = {} THEN Respond(p, 500, FALSE)
       ELSE Respond(p, 201, FALSE)

CreateOps == {"createTweet", "createPlaylist", "publishAVideo"}

\* one step of the request in slot p: the handlers that create content and
\* those that update it; at most max requests are received
LibraryStep(p, max) ==
    \/ \E caller \in Users, text \in {"", "b"} : started < max /\ createTweet(p, caller, text)
    \/ createTweet_findById(p)
    \/ \E caller \in Users, name \in {None, "b"} : started < max /\ createPlaylist(p, caller, name)
    \/ createPlaylist_findById(p)
    \/ \E caller \in Users, title \in {None, "b"} : started < max /\ publishAVideo(p, caller, title)
    \/ publishAVideo_create(p)
    \/ publishAVideo_findById(p)
    \/ \E caller \in Users, id \in {"v1", NewVideoId} :
          started < max /\ updateVideo(p, caller, id, "c")
    \/ updateVideo_write(p)
    \/ \E caller \in Users, id \in {"v1", NewVideoId} :
          started < max /\ togglePublishStatus(p, caller, id)
    \/ togglePublishStatus_write(p)
    \/ \E caller \in Users, id \in {"t1", NewTweetId} :
          started < max /\ updateTweet(p, caller, id, "c")
    \/ updateTweet_write(p)
    \/ \E caller \in Users, id \in {"p1", NewPlaylistId} :
          started < max /\ updatePlaylist(p, caller, id, "c")
    \/ updatePlaylist_write(p)
    \/ \E caller \in Users, id \in {"p1", NewPlaylistId}, vid \in {"v1", "v2", "v3"} :
          started < max /\ addVideoToPlaylist(p, caller, id, vid)
    \/ addVideoToPlaylist_findVideo(p)
    \/ addVideoToPlaylist_write(p)
    \/ \E caller \in Users, id \in {"p1", NewPlaylistId}, vid \in {"v1", "v2", "v3"} :
          started < max /\ removeVideoFromPlaylist(p, caller, id, vid)
    \/ removeVideoFromPlaylist_write(p)

\* three videos, a tweet, and a playlist of u1 that holds v2 and v1, in this
\* order
InitLibrary ==
    /\ videos = {Video("v1", "u1", TRUE, "a"), Video("v2", "u1", TRUE, "a"),
                 Video("v3", "u2", TRUE, "a")}
    /\ tweets = {Tweet("t1", "u1", "a")}
    /\ playlists = {Playlist("p1", "u1", "a", <<"v2", "v1">>)}
    /\ InitLiked
    /\ InitSlots
    /\ InitHistory

NextLibrary == \E p \in Procs : LibraryStep(p, MaxLibrary)

SpecLibrary == InitLibrary /\ [][NextLibrary]_vars

\* ================================================================ claims
AllIdle == \A p \in Procs : Idle(p)
\* slot p sends a successful response in this step
Succeeds(p) == ~Idle(p) /\ pc'[p] = "idle" /\ resp'.status = 200
\* whether the target of toggle request r exists
TargetExists(r) ==
    CASE r.op = "toggleSubscription" -> r.a \in Users
      [] r.op = "toggleVideoLike" -> FindById(videos, r.a) # {}
      [] r.op = "toggleCommentLike" -> r.a \in Comments
      [] r.op = "toggleTweetLike" -> FindById(tweets, r.a) # {}
      [] OTHER -> TRUE
\* the request received in this step: answered at once, or suspended in a slot
Received ==
    IF pc' = pc THEN Req(resp'.op, resp'.caller, resp'.a, resp'.b)
    ELSE req'[CHOOSE p \in Procs : pc'[p] # pc[p]]

\* C1: under any interleaving of toggle requests, the stores never hold two
\* edge documents for the same (source, target, kind).
C1_AtMostOneEdge == \A k \in EdgeKeys : Count(k) <= 1

\* C1 witness: two toggles of one edge both read "absent", and one has created
\* the edge while the other is still about to create it.
C1_Witness ==
    \E p \in Procs : pc[p] = "write" /\ found[p] = {} /\ Present(ReqKey(req[p]))

\* C2: with toggles run one after another, whenever no request is in flight an
\* edge toggled an even number of times is present iff it was present
\* originally, and one toggled an odd number of times iff it was absent.
C2_Parity ==
    AllIdle => \A k \in Keys : Present(k) = ((k \in initial) # (toggles[k] % 2 = 1))

\* C2 witness: an edge that was present originally has been toggled twice, and
\* another edge once.
C2_Witness ==
    /\ AllIdle
    /\ \E k \in initial : toggles[k] = 2
    /\ \E k \in Keys \ initial : toggles[k] = 1

\* C3 (as claimed): the flag a successful toggle reports equals the presence of
\* its edge in the store right after that toggle's own write.
C3_ReportsPresence ==
    [][\A p \in Procs :
          Succeeds(p) /\ req[p].op \in ToggleOps
              => resp'.flag = (ReqKey(req[p]) \in EdgeKeys')]_vars

\* a response is sent in this step: a request is rejected on arrival, or a
\* suspended handler ends
Answers ==
    \/ started' # started /\ pc' = pc
    \/ \E p \in Procs : ~Idle(p) /\ pc'[p] = "idle"
\* the documents request r is about to mutate
Entity(r) ==
    CASE r.op \in {"updateVideo", "deleteVideo", "togglePublishStatus"} -> FindById(videos, r.a)
      [] r.op \in {"updateTweet", "deleteTweet"} -> FindById(tweets, r.a)
      [] OTHER -> FindById(playlists, r.a)
NonOwner(r) == \E d \in Entity(r) : d.owner # r.caller
\* request r passes the checks its handler makes before the ownership check
PassesEarlierChecks(r) ==
    CASE r.op = "addVideoToPlaylist" -> isValidObjectId(r.b) /\ FindById(videos, r.b) # {}
      [] r.op = "removeVideoFromPlaylist" -> isValidObjectId(r.b)
      [] r.op = "updateTweet" -> r.b # ""
      [] OTHER -> TRUE

\* C4 (as claimed): every mutating request by a caller who is not the recorded
\* owner of the existing entity is answered 403 and leaves the store unchanged.
C4_NonOwnerForbidden ==
    [][(Answers /\ resp'.op \in ContentOps /\ NonOwner(resp'))
          => (resp'.status = 403 /\ videos' = videos /\ tweets' = tweets
                /\ playlists' = playlists)]_vars

\* C4 (amended): every mutating request by a caller who is not the recorded
\* owner of the existing entity fails and leaves the store unchanged; the
\* status is 403 when the request passes the handler's earlier checks, and the
\* 400 or 404 of the earlier check otherwise.
C4_NonOwnerRejected ==
    [][(Answers /\ resp'.op \in ContentOps /\ NonOwner(resp'))
          => /\ videos' = videos /\ tweets' = tweets /\ playlists' = playlists
             /\ IF PassesEarlierChecks(resp') THEN resp'.status = 403
                ELSE resp'.status \in {400, 404}]_vars

\* C4 witness: u2 asked to add a video to u1's playlist and got 403.
C4_Witness ==
    /\ resp.op = "addVideoToPlaylist" /\ resp.caller = "u2" /\ resp.status = 403
    /\ \E d \in playlists : d.id = resp.a /\ d.owner = "u1"

\* C5 (as claimed): when deleteVideo succeeds for a video, no Like document
\* targets the video and no playlist lists it any more.
C5_DeleteCascades ==
    [][\A p \in Procs :
          Succeeds(p) /\ req[p].op = "deleteVideo"
              => /\ \A d \in likes' : ~(d.field = "video" /\ d.target = req[p].a)
                 /\ \A d \in playlists' : req[p].a \notin Range(d.videos)]_vars

\* C6: under any interleaving of addVideoToPlaylist and
\* removeVideoFromPlaylist, no playlist lists a video id twice.
C6_NoDuplicateVideo ==
    \A d \in playlists :
        \A i, j \in 1..Len(d.videos) : d.videos[i] = d.videos[j] => i = j

\* C6 witness: an add has passed the membership check and is about to write
\* while the playlist already lists the video (a concurrent add wrote first).
C6_Witness ==
    \E p \in Procs :
        /\ pc[p] = "write" /\ req[p].op = "addVideoToPlaylist"
        /\ \E d \in playlists : d.id = req[p].a /\ req[p].b \in Range(d.videos)

C9_MissingTargetNotFound ==
    [][(started' # started /\ Received.op \in ToggleOps
            /\ isValidObjectId(Received.a) /\ ~TargetExists(Received))
          => (resp'.status = 404 /\ pc' = pc /\ subscriptions' = subscriptions
                /\ likes' = likes)]_vars

\* C9 witness: a like of a tweet that does not exist has been answered 404.
C9_Witness == resp.op = "toggleTweetLike" /\ resp.a = "t9" /\ resp.status = 404

\* C10 (as claimed): when two toggles of one edge race, neither is answered
\* with an error.
C10_RaceSurfacesNoError == resp.op \in ToggleOps => resp.status # 500

\* a list request has been answered with a page
Listed == resp.op \in ListOps /\ resp.status = 200
\* the documents list request r asks for
Matching(r) ==
    CASE r.op = "getAllVideos" ->
           {d \in videos :
               /\ d.isPublished
               /\ (r.a # None /\ isValidObjectId(r.a)) => d.owner = r.a
               /\ r.b.query # Absent
                    => Regex(d.title, r.b.query) \/ Regex(d.description, r.b.query)}
      [] r.op = "getChannelVideos" ->
           {d \in videos :
               /\ d.owner = r.caller
               /\ r.b.status = "published" => d.isPublished
               /\ r.b.status = "draft" => ~d.isPublished}
      [] r.op = "getUserTweets" -> {d \in tweets : d.owner = r.a}
      [] r.op = "getUserPlaylists" -> {d \in playlists : d.owner = r.a}
      [] r.op = "getUserChannelSubscribers" -> {d \in subscriptions : d.channel = r.a}
Min(a, b) == IF a < b THEN a ELSE b
Max(a, b) == IF a < b THEN b ELSE a
\* the numbers the page and limit parameters of the requests write
Number(s) ==
    CASE s = <<"1">> -> 1 [] s = <<"2">> -> 2 [] s = <<"3">> -> 3
      [] s = <<"1", "0", "1">> -> 101
RequestedPage(q) == IF q.page = Absent THEN 1 ELSE Number(q.page)
RequestedLimit(q) == IF q.limit = Absent THEN 10 ELSE Number(q.limit)

\* C11: a list request whose path id is well formed and names a user is
\* answered without an error, and a page beyond totalPages has no items while
\* totalDocs is the size of the matching set and totalPages the number of
\* pages of that size.
C11_OutOfRangePage ==
    /\ (resp.op \in ListOps /\ resp.status # 200)
          => (resp.op # "getAllVideos" /\ resp.a \notin Users)
    /\ (Listed /\ resp.data.page > resp.data.totalPages)
          => LET N == Cardinality(Matching(resp))
                 L == resp.data.limit
             IN  /\ resp.data.docs = <<>>
                 /\ resp.data.totalDocs = N
                 /\ (resp.data.totalPages - 1) * L < N
                 /\ N <= resp.data.totalPages * L

\* C11 witness: page 3 of four published videos, two to a page, is empty.
C11_Witness ==
    /\ resp.op = "getAllVideos" /\ resp.status = 200
    /\ resp.b.page = <<"3">> /\ resp.b.limit = <<"2">>
    /\ resp.data.totalDocs = 4 /\ resp.data.totalPages = 2 /\ resp.data.docs = <<>>

\* C12: a page of a matching set of N documents with limit L has
\* totalPages = ceil(N / L) and min(L, max(0, N - (page - 1) * L)) items.
C12_PageArithmetic ==
    Listed
      => LET N == Cardinality(Matching(resp))
             L == RequestedLimit(resp.b)
         IN  /\ resp.data.totalPages * L >= N
             /\ (resp.data.totalPages - 1) * L < N
             /\ Len(resp.data.docs) = Min(L, Max(0, N - (RequestedPage(resp.b) - 1) * L))

\* C12 witness: the last page of three videos, two to a page, has one item.
C12_Witness ==
    /\ resp.op = "getAllVideos" /\ resp.status = 200
    /\ resp.b.page = <<"2">> /\ resp.b.limit = <<"2">>
    /\ Cardinality(Matching(resp)) = 3
    /\ resp.data.totalPages = 2 /\ Len(resp.data.docs) = 1

\* C13 (as claimed): the limit a list request is run with, and so the number
\* of items it returns, never exceeds the ceiling (100).
C13_LimitClamped ==
    Listed => (resp.data.limit <= 100 /\ Len(resp.data.docs) <= 100)

\* the request names no sort
NoSort(q) == q.sortBy = None \/ q.sortType = None
NewestFirst(docs) ==
    \A i \in 1..(Len(docs) - 1) : docs[i].createdAt >= docs[i + 1].createdAt

\* C14: getAllVideos without sortBy/sortType returns the items of a page
\* newest first, and the first item of the next page of the same query is not
\* newer than the last item of the page before.
C14_NewestFirst ==
    [][(started' # started /\ resp'.op = "getAllVideos" /\ NoSort(resp'.b))
          => /\ NewestFirst(resp'.data.docs)
             /\ (/\ resp.op = "getAllVideos" /\ NoSort(resp.b)
                 /\ resp.a = resp'.a /\ resp.b.query = resp'.b.query
                 /\ resp.data.limit = resp'.data.limit
                 /\ resp'.data.page = resp.data.page + 1
                 /\ resp.data.docs # <<>> /\ resp'.data.docs # <<>>)
                  => resp.data.docs[Len(resp.data.docs)].createdAt
                        >= resp'.data.docs[1].createdAt]_vars

\* C14 witness: the second page of a getAllVideos without sort options holds
\* two videos created at different times, after a first page of the same query.
C14_Witness ==
    /\ started = 2
    /\ resp.op = "getAllVideos" /\ NoSort(resp.b)
    /\ resp.data.page = 2 /\ Len(resp.data.docs) = 2
    /\ resp.data.docs[1].createdAt > resp.data.docs[2].createdAt

\* a dashboard request is answered in this step
StatsAnswered == started' # started /\ resp'.op = "getChannelStats"
Owned(owner) == {d \in videos : d.owner = owner}
Subscribers(owner) == {d \in subscriptions : d.channel = owner}
ViewsOf(id, owner) ==
    IF \E d \in Owned(owner) : d.id = id
      THEN (CHOOSE d \in Owned(owner) : d.id = id).views
    ELSE 0

\* C15 (as claimed): the dashboard of an owner without videos shows zero for
\* videos, views, subscribers, likes and comments.
C15_AllZero ==
    [][(StatsAnswered /\ Owned(resp'.caller) = {})
          => /\ resp'.status = 200
             /\ resp'.data.totalVideos = 0 /\ resp'.data.totalViews = 0
             /\ resp'.data.totalSubscribers = 0
             /\ resp'.data.totalLikes = 0 /\ resp'.data.totalComments = 0]_vars

\* C15 (amended): the dashboard of an owner without videos shows zero for
\* videos, views, likes and comments, and the number of subscription documents
\* of the owner's channel for subscribers.
C15_ZeroContent ==
    [][(StatsAnswered /\ Owned(resp'.caller) = {})
          => /\ resp'.status = 200
             /\ resp'.data.totalVideos = 0 /\ resp'.data.totalViews = 0
             /\ resp'.data.totalSubscribers = Cardinality(Subscribers(resp'.caller))
             /\ resp'.data.totalLikes = 0 /\ resp'.data.totalComments = 0]_vars

\* C15 witness: u2 has no video and one subscriber, while u1's video is liked.
C15_Witness ==
    /\ resp.op = "getChannelStats" /\ resp.caller = "u2"
    /\ Owned("u2") = {} /\ Subscribers("u2") # {} /\ likes # {}
    /\ resp.data.totalVideos = 0 /\ resp.data.totalSubscribers = 1

\* C16: the dashboard of an owner shows the number of the owner's videos, the
\* sum of their views, the number of subscription documents of the owner's
\* channel, the number of liked (user, video) edges on the owner's videos and
\* the number of comments on the owner's videos.
C16_StatsCounts ==
    [][StatsAnswered
          => LET owner == resp'.caller
                 ids == {d.id : d \in Owned(owner)}
             IN  /\ resp'.data.totalVideos = Cardinality(ids)
                 /\ resp'.data.totalViews = ViewsOf("v1", owner) + ViewsOf("v2", owner)
                 /\ resp'.data.totalSubscribers = Cardinality(Subscribers(owner))
                 /\ resp'.data.totalLikes
                      = Cardinality({k \in EdgeKeys : k[1] = "video" /\ k[3] \in ids})
                 /\ resp'.data.totalComments
                      = Cardinality({c \in comments : c.video \in ids})]_vars

\* C16 witness: u1 owns two videos with five views and three comments, and a
\* comment is liked.
C16_Witness ==
    /\ resp.op = "getChannelStats" /\ resp.caller = "u1"
    /\ resp.data.totalVideos = 2 /\ resp.data.totalViews = 5
    /\ resp.data.totalComments = 3 /\ resp.data.totalLikes = 0
    /\ \E d \in likes : d.field = "Comment"

\* C17: with requests run one after another and no video liked at first, the
\* dashboard's totalLikes is the number of (user, video) pairs on the owner's
\* videos toggled an odd number of times, and a toggleVideoLike reports true
\* when its pair has then been toggled an odd number of times, false when even.
C17_LikesByParity ==
    [][/\ StatsAnswered
            => resp'.data.totalLikes
                 = Cardinality({k \in Keys : /\ k[1] = "video"
                                             /\ \E d \in Owned(resp'.caller) : d.id = k[3]
                                             /\ toggles[k] % 2 = 1})
       /\ \A p \in Procs :
            (Succeeds(p) /\ req[p].op = "toggleVideoLike")
                => resp'.flag = (toggles'[ReqKey(req[p])] % 2 = 1)]_vars

\* C17 witness: u2 liked v1 twice, the second time with the answer false, and
\* u1's dashboard then shows no like.
C17_Witness ==
    /\ resp.op = "getChannelStats" /\ resp.caller = "u1"
    /\ toggles[<<"video", "u2", "v1">>] = 2
    /\ resp.data.totalLikes = 0

\* C18 (as claimed): a list request with a malformed id, in the path or in the
\* userId filter, is answered with the error status 400.
C18_MalformedIdRejected ==
    (resp.op \in ListOps /\ resp.a = "bad") => resp.status = 400

\* C19 (as claimed): an update request that gives no field to update is not
\* answered with success.
C19_EmptyUpdateRejected ==
    (\/ resp.op \in {"updateVideo", "updatePlaylist"} /\ resp.b = None
     \/ resp.op = "updateTweet" /\ resp.b = "")
        => resp.status # 200

\* C20 (as claimed): in the pipeline of every list request, no $lookup comes
\* before the $sort and no $match comes after it.
C20_StageOrder ==
    Listed
      => LET pipeline == Pipeline(resp)
         IN  \A i, j \in 1..Len(pipeline) :
                 i < j => /\ ~(pipeline[i].stage = "$lookup" /\ pipeline[j].stage = "$sort")
                          /\ ~(pipeline[i].stage = "$sort" /\ pipeline[j].stage = "$match")

\* the items of a page are in the order of field: ascending for direction 1,
\* descending for direction -1
Ordered(docs, field, direction) ==
    \A i \in 1..(Len(docs) - 1) :
        IF direction = 1 THEN Get(docs[i], field) <= Get(docs[i + 1], field)
        ELSE Get(docs[i], field) >= Get(docs[i + 1], field)

\* C21 (as claimed): whenever a sort field is given, the page getAllVideos
\* returns is ordered by that field, ascending or descending as requested (in
\* one of the two directions when none is requested); only without a sort
\* field it is ordered by createdAt descending.
C21_RequestedOrder ==
    (resp.op = "getAllVideos" /\ resp.status = 200)
        => IF resp.b.sortBy = None THEN Ordered(resp.data.docs, "createdAt", -1)
           ELSE CASE resp.b.sortType = "asc" -> Ordered(resp.data.docs, resp.b.sortBy, 1)
                  [] resp.b.sortType = "desc" -> Ordered(resp.data.docs, resp.b.sortBy, -1)
                  [] OTHER -> \/ Ordered(resp.data.docs, resp.b.sortBy, 1)
                              \/ Ordered(resp.data.docs, resp.b.sortBy, -1)

\* C22: every video a getAllVideos returns is published in the store the
\* request is run against, whatever its query options; a video unpublished
\* by togglePublishStatus is in no page until it is published again.
C22_PublishedOnly ==
    [][(started' # started /\ resp'.op = "getAllVideos" /\ resp'.status = 200)
          => \A i \in 1..Len(resp'.data.docs) :
                 \E d \in videos : d.id = resp'.data.docs[i].id /\ d.isPublished]_vars

\* C22 witness: after its owner unpublished v1, a getAllVideos returned the
\* other published videos without it.
C22_Witness ==
    /\ resp.op = "getAllVideos" /\ resp.status = 200
    /\ \E d \in videos : d.id = "v1" /\ ~d.isPublished
    /\ resp.data.docs # <<>>
    /\ \A i \in 1..Len(resp.data.docs) : resp.data.docs[i].id # "v1"

\* the ids of the items of a page
PageIds(page) == {page.docs[i].id : i \in 1..Len(page.docs)}

\* C23 (as claimed): over an unchanging store, the next page of the same
\* paginated list repeats no item of the page before, also when several items
\* have the same sort key.
C23_PagesDisjoint ==
    [][(/\ started' # started
        /\ resp.op \in ListOps /\ resp.status = 200
        /\ resp'.op = resp.op /\ resp'.status = 200
        /\ resp'.caller = resp.caller /\ resp'.a = resp.a
        /\ resp'.b.query = resp.b.query /\ resp'.b.status = resp.b.status
        /\ resp'.b.sortBy = resp.b.sortBy /\ resp'.b.sortType = resp.b.sortType
        /\ resp'.data.limit = resp.data.limit
        /\ resp'.data.page = resp.data.page + 1)
          => PageIds(resp.data) \cap PageIds(resp'.data) = {}]_vars

\* the requests that have raised the counter of video id and not answered yet
Viewing(id) == {p \in Procs : pc[p] = "aggregate" /\ req[p].a = id}
\* the counter of video id before the first request
ViewsAtStart(id) == (CHOOSE d \in ViewVideos : d.id = id).views

\* C24: as long as a video exists its view counter never decreases, and it
\* has grown by exactly one for each completed getVideoById of the video and
\* each one that has incremented and not answered yet.
C24_ViewsCounted ==
    /\ [](\A d \in videos :
             d.views = ViewsAtStart(d.id) + toggles[ViewKey(d.id)]
                         + Cardinality(Viewing(d.id)))
    /\ [][\A d \in videos, e \in videos' : e.id = d.id => e.views >= d.views]_vars

\* C24 witness: after a completed getVideoById of v1, two more have
\* incremented its counter while both were in flight; the counter stands at 3.
C24_Witness ==
    /\ toggles[ViewKey("v1")] = 1
    /\ Cardinality(Viewing("v1")) = 2
    /\ \E d \in videos : d.id = "v1" /\ d.views = 3

\* the edge (kind, source, target) toggle request r names
ToggledEdge(r) ==
    CASE r.op = "toggleSubscription" -> <<"channel", r.caller, r.a>>
      [] r.op = "toggleVideoLike" -> <<"video", r.caller, r.a>>
      [] r.op = "toggleCommentLike" -> <<"Comment", r.caller, r.a>>
      [] r.op = "toggleTweetLike" -> <<"tweet", r.caller, r.a>>

\* C25: an edge is added to or removed from the stores only by the write of a
\* toggle request that names exactly its (kind, source, target); every other
\* edge is present after the write iff it was present before.
C25_OnlyOwnEdge ==
    [][\A k \in EdgeKeys \cup EdgeKeys' :
          (k \in EdgeKeys) # (k \in EdgeKeys')
             => \E p \in Procs : /\ pc[p] = "write" /\ pc'[p] = "idle"
                                 /\ req[p].op \in ToggleOps
                                 /\ ToggledEdge(req[p]) = k]_vars

\* C25 witness: u1 has unliked video v1 while holding a like of comment c1
\* and a subscription to u2, which are still in the stores.
C25_Witness ==
    /\ resp.op = "toggleVideoLike" /\ resp.caller = "u1" /\ resp.status = 200 /\ ~resp.flag
    /\ <<"video", "u1", "v1">> \notin EdgeKeys
    /\ <<"Comment", "u1", "c1">> \in EdgeKeys
    /\ <<"channel", "u1", "u2">> \in EdgeKeys

\* the request whose handler takes this step
Stepping ==
    IF started' # started THEN Received
    ELSE req[CHOOSE p \in Procs : pc'[p] # pc[p]]
\* in this step every document of coll keeps its owner, and a new document
\* belongs to the caller of the create request that made it
OwnerKept(coll, next) ==
    /\ \A d \in coll, e \in next : e.id = d.id => e.owner = d.owner
    /\ \A e \in next :
          FindById(coll, e.id) = {}
             => Stepping.op \in CreateOps /\ e.owner = Stepping.caller

\* C26: a video, tweet or playlist is created with the creating caller as its
\* owner, and no step of updateVideo, togglePublishStatus, updateTweet,
\* updatePlaylist, addVideoToPlaylist or removeVideoFromPlaylist changes the
\* owner of an existing one.
C26_OwnerKept ==
    [][/\ OwnerKept(videos, videos')
       /\ OwnerKept(tweets, tweets')
       /\ OwnerKept(playlists, playlists')]_vars

\* C26 witness: the tweet u2 created was then updated by u2 and still belongs
\* to u2.
C26_Witness ==
    /\ resp.op = "updateTweet" /\ resp.a = NewTweetId /\ resp.status = 200
    /\ resp.caller = "u2"
    /\ \E d \in tweets : d.id = NewTweetId /\ d.owner = "u2" /\ d.content = "c"

\* list s without the entries equal to v, the others in their order
RECURSIVE Without(_, _)
Without(s, v) ==
    IF s = <<>> THEN <<>>
    ELSE IF s[1] = v THEN Without(Tail(s), v)
    ELSE <<s[1]>> \o Without(Tail(s), v)

Store == <<subscriptions, likes, videos, tweets, playlists>>

\* C28: a step changes the store only as the one write of a request: the
\* handler taking the step has not written before, and after it the handler is
\* done or only rereads what it created; and a request answered 400, 403 or
\* 404 has written nothing.
C28_OneWrite ==
    [][/\ Store' # Store
          => \E p \in Procs : /\ pc'[p] # pc[p]
                              /\ pc[p] # "findById"
                              /\ pc'[p] \in {"idle", "findById"}
       /\ (Answers /\ resp'.status \in {400, 403, 404})
          => /\ Store' = Store
             /\ \A p \in Procs : pc'[p] # pc[p] => pc[p] # "findById"]_vars

\* C28 witness: a request was rejected by the ownership check while another
\* one is suspended before its write; the store is as it was at the start.
C28_Witness ==
    /\ resp.status = 403
    /\ \E p \in Procs : pc[p] = "write"
    /\ videos = {Video("v1", "u1", TRUE, "a")}
    /\ tweets = {Tweet("t1", "u1", "a")}
    /\ playlists = {Playlist("p1", "u1", "a", <<>>)}

\* C29 (as claimed): each completed togglePublishStatus flips the published
\* flag of its video: the flag after the write is the negation of the flag at
\* the moment of the write.
C29_FlipsOnce ==
    [][\A p \in Procs :
          (Succeeds(p) /\ req[p].op = "togglePublishStatus")
             => \A d \in FindById(videos, req[p].a), e \in FindById(videos', req[p].a) :
                    e.isPublished = ~d.isPublished]_vars

\* C30 (as claimed): an updateVideo or togglePublishStatus whose video was
\* deleted between its lookup and its write is answered 404, and the video is
\* not recreated.
C30_DeletedIsNotFound ==
    [][\A p \in Procs :
          (/\ pc[p] = "write" /\ pc'[p] = "idle"
           /\ req[p].op \in {"updateVideo", "togglePublishStatus"}
           /\ FindById(videos, req[p].a) = {})
             => resp'.status = 404 /\ videos' = videos]_vars

====
